---- MODULE Spec2Model ----
(***************************************************************************)
(* Patient Management System API (src/main.py): a FastAPI service keeping  *)
(* patient records in one JSON document, patients.json.                    *)
(*                                                                         *)
(* Numbers.  height is kept in hundredths of a metre, weight in tenths of  *)
(* a kilogram and bmi in hundredths, so that 1.55 m is 155, 70.0 kg is 700 *)
(* and a bmi of 29.14 is 2914.  round(x, 2) yields the double nearest to a *)
(* two-decimal value and the literals 18.5, 24.9, 25 and 29.9 are the      *)
(* doubles nearest to theirs, so the comparisons of verdict are exact on   *)
(* hundredths.                                                             *)
(*                                                                         *)
(* The document.  json.load and json.dump keep the order of the keys and a *)
(* dict keeps insertion order, so the document is a sequence of entries    *)
(* [key, val] with distinct keys.                                          *)
(***************************************************************************)
EXTENDS Integers, Sequences, FiniteSets, TLC

VARIABLES
    store,    \* the content of patients.json: a sequence of [key, val]
    pc,       \* the request in hand: "idle", "received" or "done"
    req,      \* the request being served
    resp,     \* the response to it
    created,  \* <<p>> after a create_patient that saved p, while only
              \* view_patient requests have followed it; <<>> otherwise
    rstore,   \* patients.json under concurrent workers
    rpc,      \* per worker: "idle", "received", "loaded" or "done"
    rreq,     \* per worker: its request
    rdata,    \* per worker: the mapping its handler loaded
    rresp,    \* per worker: its response
    vin,      \* the height, weight or bmi handed to the pure functions
    vout      \* what Patient.bmi and Patient.verdict computed from vin

vars == <<store, pc, req, resp, created, rstore, rpc, rreq, rdata, rresp, vin, vout>>

seqVars == <<store, pc, req, resp, created>>
raceVars == <<rstore, rpc, rreq, rdata, rresp>>
pureVars == <<vin, vout>>

-----------------------------------------------------------------------------
(* The record model: class Patient and class PatientUpdate.                *)

BaseFields == {"name", "city", "age", "gender", "height", "weight"}
AllFields == BaseFields \cup {"id"}

\* Literal['male','female','other']
Genders == {"male", "female", "other"}

\* A JSON body: the fields it sets, those of them it sets to null, and the
\* values of the others (val holds DefaultVal where the field is not set or
\* is null, so that a body has one representation).
DefaultVal ==
    [id |-> "", name |-> "", city |-> "", age |-> 0, gender |-> "",
     height |-> 0, weight |-> 0]

Body(given, nulls) ==
    [set |-> DOMAIN given \cup nulls,
     null |-> nulls,
     val |-> [f \in AllFields |->
                IF f \in DOMAIN given /\ f \notin nulls THEN given[f]
                ELSE DefaultVal[f]]]

\* Python's round(n / d, 2) in hundredths for d > 0, n / d given in
\* hundredths too: to the nearest, a tie to the even neighbour.
RoundHalfEven(n, d) ==
    LET q == n \div d
        r == n % d
    IN  IF 2 * r < d THEN q
        ELSE IF 2 * r > d THEN q + 1
        ELSE IF q % 2 = 0 THEN q ELSE q + 1

\* Patient.bmi: round(self.weight / (self.height ** 2), 2); raises
\* ZeroDivisionError when height is 0 (see BmiRaises).  Where the quotient
\* is exactly halfway between two hundredths the code rounds by the binary
\* value of the double; no height and weight used below gives such a
\* quotient, and on them this agrees with the float computation.
bmi(height, weight) == RoundHalfEven(weight * 100000, height * height)

BmiRaises(height) == height = 0

\* Patient.verdict
verdict_gap_closed(b) ==
    IF b < 1850 THEN "Underweight"
    ELSE IF 1850 <= b /\ b < 2500 THEN "Normal weight"
    ELSE IF 2500 <= b /\ b < 2990 THEN "Overweight"
    ELSE "Obesity"

verdict(b) ==
    IF b < 1850 THEN "Underweight"
    ELSE IF 1850 <= b /\ b < 2490 THEN "Normal weight"
    ELSE IF 2500 <= b /\ b < 2990 THEN "Overweight"
    ELSE "Obesity"

\* Patient(**kwargs): every field is required and none may be None, gender
\* is one of the three literals.  No field carries a range.  Keys that are
\* no field of the model (a stored bmi or verdict) are ignored.
Patient_any_gender(b) == b.set = AllFields /\ b.null = {}

Patient(b) ==
    /\ b.set = AllFields
    /\ b.null = {}
    /\ b.val.gender \in Genders

\* PatientUpdate(**kwargs): every field is optional and may be None; a
\* gender that is given and not None is one of the three literals.
PatientUpdate(b) ==
    ("gender" \in b.set \ b.null) => b.val.gender \in Genders

\* patient.model_dump(exclude=['id']): the six base fields and the two
\* computed fields, without id.  Raises with Patient.bmi.
model_dump_with_id(p) ==
    [id |-> p.id, name |-> p.name, city |-> p.city, age |-> p.age,
     gender |-> p.gender, height |-> p.height, weight |-> p.weight,
     bmi |-> bmi(p.height, p.weight),
     verdict |-> verdict(bmi(p.height, p.weight))]

model_dump(p) ==
    [name |-> p.name, city |-> p.city, age |-> p.age, gender |-> p.gender,
     height |-> p.height, weight |-> p.weight,
     bmi |-> bmi(p.height, p.weight),
     verdict |-> verdict(bmi(p.height, p.weight))]

-----------------------------------------------------------------------------
(* The mapping json.load returns: dict operations on a sequence of entries *)

Keys(data) == {data[i].key : i \in 1..Len(data)}

IndexOf(data, k) == CHOOSE i \in 1..Len(data) : data[i].key = k

\* data[k]
Get(data, k) == data[IndexOf(data, k)].val

\* data[k] = v: an existing key keeps its place, a new key goes last
Put(data, k, v) ==
    IF k \in Keys(data)
    THEN [data EXCEPT ![IndexOf(data, k)] = [key |-> k, val |-> v]]
    ELSE Append(data, [key |-> k, val |-> v])

\* del data[k]
Del(data, k) == SelectSeq(data, LAMBDA e : e.key # k)

\* data.values()
Values(data) == [i \in 1..Len(data) |-> data[i].val]

-----------------------------------------------------------------------------
(* sorted(iterable, key=..., reverse=...)                                  *)

Reverse(s) == [i \in 1..Len(s) |-> s[Len(s) + 1 - i]]

\* x goes behind every element whose key is not greater than its own
InsertSorted(s, x, k) ==
    LET n == Cardinality({i \in 1..Len(s) : s[i][k] <= x[k]})
    IN  SubSeq(s, 1, n) \o <<x>> \o SubSeq(s, n + 1, Len(s))

\* a stable ascending sort: each element, in the order of the input, is put
\* behind the elements that do not compare greater
RECURSIVE SortAscending(_, _)
SortAscending(s, k) ==
    IF s = <<>> THEN <<>>
    ELSE InsertSorted(SortAscending(SubSeq(s, 1, Len(s) - 1), k), s[Len(s)], k)

\* list.sort(reverse=True) reverses the list, sorts it ascending and
\* reverses the result, which keeps equal elements in their first order
sorted_reversing_result(s, k, reverse) ==
    IF reverse THEN Reverse(SortAscending(s, k)) ELSE SortAscending(s, k)

sorted(s, k, reverse) ==
    IF reverse THEN Reverse(SortAscending(Reverse(s), k))
    ELSE SortAscending(s, k)

-----------------------------------------------------------------------------
(* The handlers, as functions of the loaded mapping and the request.  An   *)
(* outcome tells whether save_data was reached and with which mapping, and *)
(* the response: its status, its detail or message, and its content as a   *)
(* sequence (one record, the sorted records, or the entries of the store). *)

Outcome(saved, data, status, detail, body) ==
    [saved |-> saved, data |-> data, status |-> status, detail |-> detail,
     body |-> body]

\* What FastAPI answers when the body does not validate against the
\* parameter's model; the handler is not called.
RequestInvalid(data) == Outcome(FALSE, data, 422, "validation error", <<>>)

\* What the server answers when the handler raises anything but an
\* HTTPException: a pydantic ValidationError of Patient(**existing_patient),
\* a ZeroDivisionError of Patient.bmi, a TypeError of json.dumps.
ServerError(saved, data) ==
    Outcome(saved, data, 500, "Internal Server Error", <<>>)

NotFound(data) == Outcome(FALSE, data, 404, "Patient not found", <<>>)

\* view_patients
view_patients(data) == Outcome(FALSE, data, 200, "", data)

\* view_patient
view_patient(data, patient_id) ==
    IF patient_id \in Keys(data)
    THEN Outcome(FALSE, data, 200, "", <<Get(data, patient_id)>>)
    ELSE NotFound(data)

valid_sort_fields == {"height", "weight", "bmi", "age"}

\* sort_patients
sort_patients(data, sort_by, order) ==
    IF sort_by \notin valid_sort_fields
    THEN Outcome(FALSE, data, 400, "Invalid sort field", <<>>)
    ELSE IF order \notin {"asc", "desc"}
    THEN Outcome(FALSE, data, 400, "Order must be 'asc' or 'desc'", <<>>)
    ELSE Outcome(FALSE, data, 200, "",
                 sorted(Values(data), sort_by, order = "desc"))

\* create_patient: `if patient.id in data`
id_exists_never(data, id) == FALSE

id_exists(data, id) == id \in Keys(data)

\* create_patient.  The content of the JSONResponse of the last line holds
\* the Patient object itself, which json.dumps cannot serialise: rendering
\* raises TypeError after save_data has returned.
create_patient(data, patient) ==
    IF ~Patient(patient) THEN RequestInvalid(data)
    ELSE IF id_exists(data, patient.val.id)
    THEN Outcome(FALSE, data, 400, "Patient with this ID already exists", <<>>)
    ELSE IF BmiRaises(patient.val.height) THEN ServerError(FALSE, data)
    ELSE ServerError(TRUE, Put(data, patient.val.id, model_dump(patient.val)))

\* edit_patient: patient_update.model_dump(exclude_unset=True), the fields
\* the caller set, a null among them as None
updated_fields_exclude_none(u) == u.set \ u.null

updated_fields(u) == u.set

\* edit_patient: the loop over updated_patient.items() and the assignment of
\* existing_patient['id'], as the keyword arguments of Patient(...)
Merged(existing, u, patient_id) ==
    LET upd == updated_fields(u)
    IN  [set |-> AllFields,
         null |-> (upd \cap u.null) \ {"id"},
         val |-> [f \in AllFields |->
                    IF f = "id" THEN patient_id
                    ELSE IF f \in upd
                    THEN (IF f \in u.null THEN DefaultVal[f] ELSE u.val[f])
                    ELSE existing[f]]]

\* edit_patient: existing_patient_obj.model_dump(exclude=['id']), the value
\* put back into data
updated_value_keeping_derived(obj, existing) ==
    [model_dump(obj) EXCEPT !.bmi = existing.bmi, !.verdict = existing.verdict]

updated_value(obj, existing) == model_dump(obj)

\* edit_patient: the key of `data[patient_id] = existing_patient`
updated_key_from_body(patient_id, u) ==
    IF "id" \in u.set \ u.null THEN u.val.id ELSE patient_id

updated_key(patient_id, u) == patient_id

\* edit_patient
edit_patient(data, patient_id, u) ==
    IF ~PatientUpdate(u) THEN RequestInvalid(data)
    ELSE IF patient_id \notin Keys(data) THEN NotFound(data)
    ELSE LET existing == Get(data, patient_id)
             merged == Merged(existing, u, patient_id)
         IN  IF ~Patient(merged) THEN ServerError(FALSE, data)
             ELSE IF BmiRaises(merged.val.height) THEN ServerError(FALSE, data)
             ELSE Outcome(TRUE,
                          Put(data, updated_key(patient_id, u),
                              updated_value(merged.val, existing)),
                          200, "patient updated", <<>>)

\* delete_patient
delete_patient(data, patient_id) ==
    IF patient_id \notin Keys(data) THEN NotFound(data)
    ELSE Outcome(TRUE, Del(data, patient_id), 200,
                 "Patient deleted successfully", <<>>)

-----------------------------------------------------------------------------
(* load_data and save_data on patients.json                                *)

\* load_data: json.load of the whole document
load_data(file) == file

\* save_data: open(..., "w") and json.dump: the document becomes data,
\* whatever it held
save_data(file, data) == data

-----------------------------------------------------------------------------
(* The requests the model sends                                            *)

Ids == {"P001", "P002"}

Ann(id) ==
    [id |-> id, name |-> "Ann", city |-> "Pune", age |-> 30,
     gender |-> "female", height |-> 155, weight |-> 700]

Raj(id) ==
    [id |-> id, name |-> "Raj", city |-> "Delhi", age |-> 30,
     gender |-> "male", height |-> 200, weight |-> 998]

Without(r, f) == [g \in DOMAIN r \ {f} |-> r[g]]

\* bodies of POST /create: two patients, one aged -1, one 0 m tall, one of
\* no known gender, one without a city, one whose weight is null
CreateBodies ==
    UNION {{Body(Ann(id), {}),
            Body(Raj(id), {}),
            Body([Ann(id) EXCEPT !.age = -1], {}),
            Body([Ann(id) EXCEPT !.height = 0], {}),
            Body([Ann(id) EXCEPT !.gender = "robot"], {}),
            Body(Without(Ann(id), "city"), {}),
            Body(Ann(id), {"weight"})} : id \in Ids}

\* bodies of PUT /edit/{patient_id}
UpdateBodies ==
    {Body([name |-> "Raj"], {}),
     Body([city |-> "Delhi"], {}),
     Body([age |-> -1], {}),
     Body([gender |-> "male"], {}),
     Body([height |-> 200], {}),
     Body([weight |-> 998], {}),
     Body([height |-> 200, weight |-> 998], {}),
     Body(<<>>, {}),
     Body([gender |-> "robot"], {}),
     Body([height |-> 0], {}),
     Body(<<>>, {"weight"}),
     Body([name |-> "Raj"], {"id"})}
    \cup {Body([id |-> id, name |-> "Raj"], {}) : id \in Ids}

SortFields == valid_sort_fields \cup {"name"}
SortOrders == {"asc", "desc", "up"}

Request(op, patient_id, body, sort_by, order) ==
    [op |-> op, patient_id |-> patient_id, body |-> body,
     sort_by |-> sort_by, order |-> order]

EmptyBody == Body(<<>>, {})

NoRequest == Request("none", "", EmptyBody, "", "")

NoResponse == [status |-> 0, detail |-> "", body |-> <<>>]

Requests ==
    {Request("create", "", b, "", "") : b \in CreateBodies}
    \cup {Request("edit", id, b, "", "") : id \in Ids, b \in UpdateBodies}
    \cup {Request("delete", id, EmptyBody, "", "") : id \in Ids}
    \cup {Request("view_patient", id, EmptyBody, "", "") : id \in Ids}
    \cup {Request("view", "", EmptyBody, "", "")}
    \cup {Request("sort", "", EmptyBody, f, o) : f \in SortFields, o \in SortOrders}

-----------------------------------------------------------------------------
(* One request at a time: the request arrives, its handler runs from       *)
(* load_data to its return or its exception, the response leaves.          *)

Response(o) == [status |-> o.status, detail |-> o.detail, body |-> o.body]

\* the handler's effect on patients.json and the response the client gets
Serve(o) ==
    /\ store' = IF o.saved THEN save_data(store, o.data) ELSE store
    /\ resp' = Response(o)
    /\ pc' = "done"
    /\ UNCHANGED <<req, raceVars, pureVars>>

Receive ==
    /\ pc = "idle"
    /\ \E r \in Requests : req' = r
    /\ pc' = "received"
    /\ UNCHANGED <<store, resp, created, raceVars, pureVars>>

GetView ==
    /\ pc = "received" /\ req.op = "view"
    /\ Serve(view_patients(load_data(store)))
    /\ created' = <<>>

GetPatient ==
    /\ pc = "received" /\ req.op = "view_patient"
    /\ Serve(view_patient(load_data(store), req.patient_id))
    /\ UNCHANGED created

GetSort ==
    /\ pc = "received" /\ req.op = "sort"
    /\ Serve(sort_patients(load_data(store), req.sort_by, req.order))
    /\ created' = <<>>

PostCreate ==
    /\ pc = "received" /\ req.op = "create"
    /\ LET o == create_patient(load_data(store), req.body)
       IN  /\ Serve(o)
           /\ created' = IF o.saved THEN <<req.body.val>> ELSE <<>>

PutEdit ==
    /\ pc = "received" /\ req.op = "edit"
    /\ Serve(edit_patient(load_data(store), req.patient_id, req.body))
    /\ created' = <<>>

DeleteDelete ==
    /\ pc = "received" /\ req.op = "delete"
    /\ Serve(delete_patient(load_data(store), req.patient_id))
    /\ created' = <<>>

Finish ==
    /\ pc = "done"
    /\ pc' = "idle"
    /\ req' = NoRequest
    /\ resp' = NoResponse
    /\ UNCHANGED <<store, created, raceVars, pureVars>>

InitSeq ==
    /\ store = <<>>
    /\ pc = "idle"
    /\ req = NoRequest
    /\ resp = NoResponse
    /\ created = <<>>

InitRaceIdle ==
    /\ rstore = <<>>
    /\ rpc = <<>>
    /\ rreq = <<>>
    /\ rdata = <<>>
    /\ rresp = <<>>

InitPureIdle == vin = <<>> /\ vout = <<>>

Init == InitSeq /\ InitRaceIdle /\ InitPureIdle

Next ==
    \/ Receive
    \/ GetView
    \/ GetPatient
    \/ GetSort
    \/ PostCreate
    \/ PutEdit
    \/ DeleteDelete
    \/ Finish

Spec == Init /\ [][Next]_vars

-----------------------------------------------------------------------------
(* Properties of the service under Spec                                    *)

KeySeq(data) == [i \in 1..Len(data) |-> data[i].key]

DerivedFields == {"bmi", "verdict"}

\* a handler has just run: req is the request, the unprimed store what
\* load_data returned, the primed store and resp what it left
Handled(op) == pc = "received" /\ req.op = op /\ pc' = "done"

\* C1: every record of patients.json carries the bmi that Patient.bmi
\* computes from its own height and weight, and the verdict that
\* Patient.verdict computes from that bmi: no create, edit or delete,
\* successful or failing, leaves a stale derived value in the document.
C1_DerivedValuesConsistent ==
    \A i \in 1..Len(store) :
        LET v == store[i].val
        IN  /\ v.height # 0
            /\ v.bmi = bmi(v.height, v.weight)
            /\ v.verdict = verdict(v.bmi)

\* an edit that changed the height of one of two stored patients succeeded
C1_Witness ==
    /\ pc = "done" /\ req.op = "edit" /\ resp.status = 200
    /\ "height" \in req.body.set
    /\ Len(store) = 2
    /\ Get(store, req.patient_id).bmi # 2914

\* C2: a successful edit(id, u) leaves under id, for every base attribute,
\* the value u gives it when u sets it (and u sets none to null) and the
\* value it had otherwise; every other entry of the store is as it was.
C2_EditFrame ==
    [][(Handled("edit") /\ resp'.status = 200) =>
         LET id == req.patient_id
             u == req.body
         IN  /\ id \in Keys(store) /\ id \in Keys(store')
             /\ \A f \in BaseFields :
                    IF f \in u.set
                    THEN f \notin u.null /\ Get(store', id)[f] = u.val[f]
                    ELSE Get(store', id)[f] = Get(store, id)[f]
             /\ Len(store') = Len(store)
             /\ \A i \in 1..Len(store) :
                    store[i].key # id => store'[i] = store[i]]_vars

\* an edit of the city alone succeeded: the city is the new one, the name
\* the old one, and a second patient is in the store
C2_Witness ==
    /\ pc = "done" /\ req.op = "edit" /\ resp.status = 200
    /\ req.body.set = {"city"}
    /\ Len(store) = 2
    /\ Get(store, req.patient_id).city = "Delhi"
    /\ Get(store, req.patient_id).name = "Ann"

\* C3: an edit(id, u) never changes the keys of the store nor their order,
\* whatever u holds; when it succeeds with u.id = id2 # id, the fields u
\* sets are those of the record under id and every record under another key,
\* id2 among them, is as it was.
C3_EditKeepsId ==
    [][Handled("edit") =>
         LET id == req.patient_id
             u == req.body
         IN  /\ KeySeq(store') = KeySeq(store)
             /\ (resp'.status = 200 /\ "id" \in u.set \ u.null /\ u.val.id # id) =>
                   /\ \A f \in u.set \cap BaseFields :
                          Get(store', id)[f] = u.val[f]
                   /\ \A k \in Keys(store) \ {id} :
                          Get(store', k) = Get(store, k)]_vars

\* an edit whose body names another id, under which nothing is stored,
\* succeeded
C3_Witness ==
    /\ pc = "done" /\ req.op = "edit" /\ resp.status = 200
    /\ "id" \in req.body.set \ req.body.null
    /\ req.body.val.id # req.patient_id
    /\ req.body.val.id \notin Keys(store)
    /\ Get(store, req.patient_id).name = "Raj"

\* C4: create_patient of a patient whose id is a key of the store answers
\* 400 "Patient with this ID already exists" and leaves the store as it was.
C4_CreateDuplicateRejected ==
    [][(Handled("create") /\ Patient(req.body)
          /\ req.body.val.id \in Keys(store)) =>
         /\ resp'.status = 400
         /\ resp'.detail = "Patient with this ID already exists"
         /\ store' = store]_vars

\* Raj was posted under the id of Ann, who is still there
C4_Witness ==
    /\ pc = "done" /\ req.op = "create" /\ resp.status = 400
    /\ req.body.val.name = "Raj"
    /\ req.body.val.id \in Keys(store)
    /\ Get(store, req.body.val.id).name = "Ann"

\* C5: no record of the store has a negative age, a height or a weight that
\* is not positive, or a gender outside the three literals.
C5_RangesEnforced ==
    \A i \in 1..Len(store) :
        LET v == store[i].val
        IN  /\ v.age >= 0
            /\ v.height > 0
            /\ v.weight > 0
            /\ v.gender \in Genders

\* C5 as amended: validation enforces presence, non-null values and the
\* gender literals, and no range.  A create whose body lacks a field, sets
\* one to null or has another gender answers 422, an edit whose body has
\* another gender answers 422 and an edit that sets a base field to null
\* answers 500, each leaving the store as it was; every stored record has
\* the six base and two derived fields, a gender among the three literals
\* and a height other than 0.
C5_PresenceAndGenderEnforced ==
    [][(pc = "received" /\ pc' = "done" /\ req.op \in {"create", "edit"}) =>
         /\ (req.op = "create" /\ ~Patient(req.body)) =>
                (resp'.status = 422 /\ store' = store)
         /\ (req.op = "edit" /\ ~PatientUpdate(req.body)) =>
                (resp'.status = 422 /\ store' = store)
         /\ (req.op = "edit" /\ PatientUpdate(req.body)
               /\ req.patient_id \in Keys(store)
               /\ req.body.null \cap BaseFields # {}) =>
                (resp'.status = 500 /\ store' = store)
         /\ \A i \in 1..Len(store') :
                LET v == store'[i].val
                IN  /\ DOMAIN v = BaseFields \cup DerivedFields
                    /\ v.gender \in Genders
                    /\ v.height # 0]_vars

\* a patient aged -1 has been created and saved
C5_Witness ==
    /\ pc = "done" /\ req.op = "create"
    /\ req.body.val.age = -1
    /\ req.body.val.id \in Keys(store)
    /\ Get(store, req.body.val.id).age = -1

\* C6: a handler either answers with success, or answers with an error and
\* leaves patients.json as it was.
C6_NoPartialSuccess ==
    [][(pc = "received" /\ pc' = "done") =>
         (resp'.status \in {200, 201} \/ store' = store)]_vars

\* C8: view_patient(r.id) right after a create_patient(r) that saved r
\* answers 200 with the six base attributes of r, the bmi and the verdict
\* computed from r's height and weight, and no id.
C8_CreateThenView ==
    (pc = "done" /\ req.op = "view_patient" /\ created # <<>>
       /\ req.patient_id = created[1].id) =>
        /\ resp.status = 200
        /\ Len(resp.body) = 1
        /\ LET r == created[1]
               v == resp.body[1]
           IN  /\ DOMAIN v = BaseFields \cup DerivedFields
               /\ \A f \in BaseFields : v[f] = r[f]
               /\ v.bmi = bmi(r.height, r.weight)
               /\ v.verdict = verdict(v.bmi)
               /\ (r.height = 155 /\ r.weight = 700) =>
                      (v.bmi = 2914 /\ v.verdict = "Overweight")

\* Ann was created as the second patient and then viewed
C8_Witness ==
    /\ pc = "done" /\ req.op = "view_patient" /\ created # <<>>
    /\ req.patient_id = created[1].id
    /\ created[1].name = "Ann"
    /\ Len(store) = 2

-----------------------------------------------------------------------------
(* Patient.bmi and Patient.verdict on their own: SpecVerdict               *)

\* the largest bmi, in hundredths, handed to Patient.verdict
MaxBmi == 3200

BmiValues == (0 - MaxBmi)..MaxBmi

\* odd numbers of centimetres: weight / height ** 2 is then never halfway
\* between two hundredths, where round() goes by the binary value
HeightValues == {155, 163, 175, 181}
WeightValues == {450, 500, 550, 600, 650, 700, 750, 800, 850, 900, 950, 998}

\* a Patient of that height and weight, or a Patient whose bmi is b
PureInputs ==
    {[kind |-> "patient", height |-> h, weight |-> w, bmi |-> 0] :
        h \in HeightValues, w \in WeightValues}
    \cup {[kind |-> "bmi", height |-> 0, weight |-> 0, bmi |-> b] :
            b \in BmiValues}

InitVerdict ==
    /\ InitSeq /\ InitRaceIdle
    /\ vin \in {<<i>> : i \in PureInputs}
    /\ vout = <<>>

\* patient.bmi and patient.verdict are read
ReadComputedFields ==
    /\ vout = <<>>
    /\ vin[1].kind = "patient"
    /\ LET b == bmi(vin[1].height, vin[1].weight)
       IN  vout' = <<[bmi |-> b, verdict |-> verdict(b)]>>
    /\ UNCHANGED <<vin, seqVars, raceVars>>

\* patient.verdict is read of a patient whose bmi is vin[1].bmi
ReadVerdict ==
    /\ vout = <<>>
    /\ vin[1].kind = "bmi"
    /\ vout' = <<[bmi |-> vin[1].bmi, verdict |-> verdict(vin[1].bmi)]>>
    /\ UNCHANGED <<vin, seqVars, raceVars>>

NextVerdict == ReadComputedFields \/ ReadVerdict

SpecVerdict == InitVerdict /\ [][NextVerdict]_vars

\* C7: the verdict is "Underweight" below 18.5, "Normal weight" from 18.5
\* to below 24.9, "Obesity" from 24.9 to below 25, "Overweight" from 25 to
\* below 29.9 and "Obesity" from 29.9 on; a patient 1.55 m tall weighing
\* 70.0 kg has bmi 29.14 and verdict "Overweight".
C7_VerdictTable ==
    vout # <<>> =>
        LET b == vout[1].bmi
            v == vout[1].verdict
        IN  /\ b < 1850 => v = "Underweight"
            /\ (1850 <= b /\ b < 2490) => v = "Normal weight"
            /\ (2490 <= b /\ b < 2500) => v = "Obesity"
            /\ (2500 <= b /\ b < 2990) => v = "Overweight"
            /\ 2990 <= b => v = "Obesity"
            /\ (vin[1].kind = "patient" /\ vin[1].height = 155
                  /\ vin[1].weight = 700) =>
                   (b = 2914 /\ v = "Overweight")

\* the verdict of a bmi in the gap between 24.9 and 25 has been read
C7_Witness ==
    /\ vout # <<>>
    /\ 2490 <= vout[1].bmi /\ vout[1].bmi < 2500
    /\ vout[1].verdict = "Obesity"

-----------------------------------------------------------------------------
(* sort_patients on stores of a few patients: SpecSort                     *)

\* the most patients in a store that is sorted
MaxSortRecords == 3

IdPool == <<"P001", "P002", "P003", "P004", "P005">>

Mia(id) == [Ann(id) EXCEPT !.name = "Mia", !.age = 25]
Tom(id) == [Raj(id) EXCEPT !.name = "Tom", !.age = 40, !.weight = 700]

\* what create_patient stores of Ann, Raj, Mia and Tom: Ann and Mia have
\* one height, weight and bmi, Ann and Raj one age, Raj and Tom one height
SortValues == {model_dump(Ann("")), model_dump(Raj("")),
               model_dump(Mia("")), model_dump(Tom(""))}

\* the stores that creating n of them in any order leaves, n <= MaxSortRecords
SortStores ==
    UNION {{[i \in 1..n |-> [key |-> IdPool[i], val |-> vs[i]]] :
              vs \in [1..n -> SortValues]} : n \in 0..MaxSortRecords}

SortRequests ==
    {Request("sort", "", EmptyBody, f, o) : f \in SortFields, o \in SortOrders}

InitSort ==
    /\ store \in SortStores
    /\ pc = "idle"
    /\ req = NoRequest
    /\ resp = NoResponse
    /\ created = <<>>
    /\ InitRaceIdle /\ InitPureIdle

ReceiveSort ==
    /\ pc = "idle"
    /\ \E r \in SortRequests : req' = r
    /\ pc' = "received"
    /\ UNCHANGED <<store, resp, created, raceVars, pureVars>>

NextSort == ReceiveSort \/ GetSort \/ Finish

SpecSort == InitSort /\ [][NextSort]_vars

WithKey(s, k, x) == SelectSeq(s, LAMBDA e : e[k] = x)

\* C9: sort_patients with a valid field and order answers 200 with all the
\* stored records, non-decreasing in the field for asc and non-increasing
\* for desc; for either order the records of one key value come in the
\* order the store holds them; the store is left as it was.
C9_SortStable ==
    [][(Handled("sort") /\ req.sort_by \in valid_sort_fields
          /\ req.order \in {"asc", "desc"}) =>
         LET k == req.sort_by
             in == Values(store)
             out == resp'.body
         IN  /\ store' = store
             /\ resp'.status = 200
             /\ Len(out) = Len(in)
             /\ \A i \in 1..Len(out) - 1 :
                    IF req.order = "asc" THEN out[i][k] <= out[i + 1][k]
                    ELSE out[i][k] >= out[i + 1][k]
             /\ \A i \in 1..Len(in) :
                    WithKey(out, k, in[i][k]) = WithKey(in, k, in[i][k])]_vars

\* three patients were sorted by bmi, descending; the two of the same bmi
\* are different patients and come first
C9_Witness ==
    /\ pc = "done" /\ req.op = "sort" /\ resp.status = 200
    /\ req.sort_by = "bmi" /\ req.order = "desc"
    /\ Len(resp.body) = 3
    /\ resp.body[1].bmi = resp.body[2].bmi
    /\ resp.body[1] # resp.body[2]
    /\ resp.body[3].bmi < resp.body[2].bmi

-----------------------------------------------------------------------------
(* Two requests at a time: SpecRace.  FastAPI runs the handlers, plain     *)
(* functions, on the threads of a pool; nothing orders the load_data of    *)
(* one against the save_data of another.                                   *)

Workers == {1, 2}

RaceRequests ==
    {Request("create", "", Body(Ann(id), {}), "", "") : id \in Ids}
    \cup {Request("edit", id, Body([weight |-> 998], {}), "", "") : id \in Ids}
    \cup {Request("edit", id, Body([name |-> "Raj"], {}), "", "") : id \in Ids}
    \cup {Request("delete", id, EmptyBody, "", "") : id \in Ids}

\* the handler of the request's route on the mapping it loaded
Handler(data, r) ==
    CASE r.op = "create" -> create_patient(data, r.body)
      [] r.op = "edit" -> edit_patient(data, r.patient_id, r.body)
      [] r.op = "delete" -> delete_patient(data, r.patient_id)

\* the mapping a handler changes and saves: the one it loaded, not the
\* document as it is when the handler saves
working_copy_reloaded(file, data) == file

working_copy(file, data) == data

InitRace ==
    /\ InitSeq /\ InitPureIdle
    /\ rstore = <<>>
    /\ rpc = [w \in Workers |-> "idle"]
    /\ rreq = [w \in Workers |-> NoRequest]
    /\ rdata = [w \in Workers |-> <<>>]
    /\ rresp = [w \in Workers |-> NoResponse]

RaceReceive(w) ==
    /\ rpc[w] = "idle"
    /\ \E r \in RaceRequests : rreq' = [rreq EXCEPT ![w] = r]
    /\ rpc' = [rpc EXCEPT ![w] = "received"]
    /\ UNCHANGED <<rstore, rdata, rresp, seqVars, pureVars>>

\* data = load_data()
RaceLoad(w) ==
    /\ rpc[w] = "received"
    /\ rdata' = [rdata EXCEPT ![w] = load_data(rstore)]
    /\ rpc' = [rpc EXCEPT ![w] = "loaded"]
    /\ UNCHANGED <<rstore, rreq, rresp, seqVars, pureVars>>

\* the rest of the handler: the change of data, save_data(data), the response
RaceSave(w) ==
    /\ rpc[w] = "loaded"
    /\ LET o == Handler(working_copy(rstore, rdata[w]), rreq[w])
       IN  /\ rstore' = IF o.saved THEN save_data(rstore, o.data) ELSE rstore
           /\ rresp' = [rresp EXCEPT ![w] = Response(o)]
    /\ rpc' = [rpc EXCEPT ![w] = "done"]
    /\ UNCHANGED <<rreq, rdata, seqVars, pureVars>>

RaceFinish(w) ==
    /\ rpc[w] = "done"
    /\ rpc' = [rpc EXCEPT ![w] = "idle"]
    /\ rreq' = [rreq EXCEPT ![w] = NoRequest]
    /\ rdata' = [rdata EXCEPT ![w] = <<>>]
    /\ rresp' = [rresp EXCEPT ![w] = NoResponse]
    /\ UNCHANGED <<rstore, seqVars, pureVars>>

NextRace ==
    \E w \in Workers :
        \/ RaceReceive(w)
        \/ RaceLoad(w)
        \/ RaceSave(w)
        \/ RaceFinish(w)

SpecRace == InitRace /\ [][NextRace]_vars

\* both workers have answered 200 to an edit or a delete
BothSucceeded ==
    \A w \in Workers :
        /\ rpc[w] = "done"
        /\ rresp[w].status = 200
        /\ rreq[w].op \in {"edit", "delete"}

\* C10: when two handlers that loaded the same mapping have both answered
\* with success, patients.json is what one of them alone would have left of
\* that mapping: the save of the later one has replaced the save of the
\* earlier one, whose effect is lost when the two differ.
C10_LastSaveWins ==
    (BothSucceeded /\ rdata[1] = rdata[2]) =>
        \E w \in Workers : rstore = Handler(rdata[w], rreq[w]).data

\* both have answered 200 to edits of different patients that each change
\* the mapping they loaded, and the document has the edit of worker 2 and
\* not the edit of worker 1
C10_Witness ==
    /\ BothSucceeded /\ rdata[1] = rdata[2]
    /\ rreq[1].op = "edit" /\ rreq[2].op = "edit"
    /\ rreq[1].patient_id # rreq[2].patient_id
    /\ Handler(rdata[1], rreq[1]).data # rdata[1]
    /\ Handler(rdata[2], rreq[2]).data # rdata[2]
    /\ rstore = Handler(rdata[2], rreq[2]).data
    /\ Get(rstore, rreq[1].patient_id) = Get(rdata[1], rreq[1].patient_id)

====
